---------------------------- MODULE Spec2Model ----------------------------
(***************************************************************************)
(* Model of the sandboxed execution pipeline of GitBlamed-TestServer        *)
(* (src/main.go): createFS, tarImageContext, executeCodeTest and the POST   *)
(* handler that calls it.                                                   *)
(*                                                                          *)
(* Strings that the code concatenates (user, task, image tag) are           *)
(* sequences of one-character strings.  A filesystem path is the sequence   *)
(* of its slash-separated components; the walk root "." is << >>.           *)
(* File content is a sequence of bytes.                                     *)
(***************************************************************************)
EXTENDS Naturals, Sequences, FiniteSets, TLC

VARIABLES
    \* ---- one executeCodeTest call per request ----
    pc,               \* position of each request in executeCodeTest
    args,             \* (code, task, user) the handler passed
    containerOutput,  \* containerOutput.ID of each request
    deferred,         \* the deferred calls registered so far, in order
    waitOutcome,      \* the select case taken, while its err is in scope
    report,           \* what CopyFromContainer returned
    logBuffer,        \* the bytes executeCodeTest is about to return
    output,           \* what the handler wrote to the response
    panicValue,       \* the value the request panicked with
    calls,            \* the engine calls each request made, in order
    \* ---- the engine ----
    images,           \* tag -> build context the tag was last built from
    containers,       \* container ID -> build context of its image
    \* ---- createFS and tarImageContext on their own ----
    fsArgs,           \* the (task, code) createFS was applied to
    memFS,            \* the filesystem handed to tarImageContext
    fault,            \* the walk step that fails, if any
    packed            \* what tarImageContext returned

vars == <<pc, args, containerOutput, deferred, waitOutcome, report, logBuffer,
          output, panicValue, calls, images, containers,
          fsArgs, memFS, fault, packed>>

reqVars == <<pc, args, containerOutput, deferred, waitOutcome, report,
             logBuffer, output, panicValue, calls, images, containers>>

fsVars == <<fsArgs, memFS, fault, packed>>

----------------------------------------------------------------------------
(* Bounds *)

\* number of requests the server handles, concurrently
NumReq == 2

\* longest file content drawn for an input filesystem
MaxData == 1

Req == 1..NumReq

Bytes == {"x", "y"}

Contents == UNION {[1..n -> Bytes] : n \in 0..MaxData}

----------------------------------------------------------------------------
(* File modes and the catalog *)

\* Mode: 0644 of the three MapFile literals
FileMode == 420

RegMode(perm) == [dir |-> FALSE, perm |-> perm]

\* fstest.MapFS gives a directory it synthesizes the mode fs.ModeDir | 0555
SynthDirMode == [dir |-> TRUE, perm |-> 365]

Users == {<<"a">>, <<"a", "-", "b">>}

\* tasks that have a harness tests/<task>/test.ts
CatalogTasks == {<<"c">>, <<"b", "-", "c">>}

\* a task without one
MissingTasks == {<<"n">>}

Tasks == CatalogTasks \cup MissingTasks

Codes == {<<"x">>, <<"y", "x">>}

\* the requests the server is sent: two submissions for one (user, task),
\* one for another user, one for a task that has no harness
Inputs ==
    {[user |-> <<"a">>, task |-> <<"b", "-", "c">>, code |-> <<"x">>],
     [user |-> <<"a">>, task |-> <<"b", "-", "c">>, code |-> <<"y", "x">>],
     [user |-> <<"a", "-", "b">>, task |-> <<"b", "-", "c">>, code |-> <<"x">>],
     [user |-> <<"a">>, task |-> <<"n">>, code |-> <<"x">>]}

HarnessPath(task) == <<"tests", task, "test.ts">>

DockerfilePath == <<"image", "Dockerfile">>

\* the content of tests/<task>/test.ts, one per task
HarnessData(task) == IF task = <<"c">> THEN <<"s">> ELSE <<"t">>

\* the embedded files: image/* and tests/**/test.ts
files ==
    [p \in {DockerfilePath} \cup {HarnessPath(t) : t \in CatalogTasks} |->
        IF p = DockerfilePath THEN <<"F">> ELSE HarnessData(p[2])]

\* files.ReadFile
ReadFile(path) ==
    IF path \in DOMAIN files
    THEN [err |-> "nil", data |-> files[path]]
    ELSE [err |-> "NotExist", data |-> <<>>]

\* createFS without the two error checks
createFSIgnoringErr(task, code) ==
    LET dockerfile == ReadFile(DockerfilePath)
        testFile   == ReadFile(HarnessPath(task))
    IN  [panic |-> "nil",
         fs |-> (<<"code.ts">> :> [Data |-> code, Mode |-> RegMode(FileMode)])
                @@ (<<"Dockerfile">> :> [Data |-> dockerfile.data, Mode |-> RegMode(FileMode)])
                @@ (<<"test.ts">> :> [Data |-> testFile.data, Mode |-> RegMode(FileMode)])]

\* createFS with the data of code.ts and test.ts exchanged
createFSSwapped(task, code) ==
    LET dockerfile == ReadFile(DockerfilePath)
        testFile   == ReadFile(HarnessPath(task))
    IN  IF dockerfile.err # "nil" THEN [panic |-> dockerfile.err, fs |-> <<>>]
        ELSE IF testFile.err # "nil" THEN [panic |-> testFile.err, fs |-> <<>>]
        ELSE [panic |-> "nil",
              fs |-> (<<"code.ts">> :> [Data |-> testFile.data, Mode |-> RegMode(FileMode)])
                     @@ (<<"Dockerfile">> :> [Data |-> dockerfile.data, Mode |-> RegMode(FileMode)])
                     @@ (<<"test.ts">> :> [Data |-> code, Mode |-> RegMode(FileMode)])]

\* createFS panics with the error ReadFile returned, else returns the MapFS
createFS(task, code) ==
    LET memFS0     == (<<"code.ts">> :> [Data |-> code, Mode |-> RegMode(FileMode)])
        dockerfile == ReadFile(DockerfilePath)
        testFile   == ReadFile(HarnessPath(task))
    IN  IF dockerfile.err # "nil" THEN [panic |-> dockerfile.err, fs |-> <<>>]
        ELSE IF testFile.err # "nil" THEN [panic |-> testFile.err, fs |-> <<>>]
        ELSE [panic |-> "nil",
              fs |-> (<<"Dockerfile">> :> [Data |-> dockerfile.data, Mode |-> RegMode(FileMode)])
                     @@ (<<"test.ts">> :> [Data |-> testFile.data, Mode |-> RegMode(FileMode)])
                     @@ memFS0]

----------------------------------------------------------------------------
(* fs.WalkDir over a filesystem *)

\* byte order of the entry names used
NameOrder == <<"Dockerfile", "a", "b", "c", "code.ts", "d", "e", "test.ts">>

NameRank(n) == CHOOSE i \in 1..Len(NameOrder) : NameOrder[i] = n

IsPrefix(p, q) == Len(p) <= Len(q) /\ SubSeq(q, 1, Len(p)) = p

\* the entries below a directory
Below(fsys, dir) == {q \in DOMAIN fsys : IsPrefix(dir, q) /\ Len(q) > Len(dir)}

\* entry.Info(): the file's own mode and data, or a synthesized directory
Stat(fsys, p) ==
    IF p \in DOMAIN fsys THEN fsys[p] ELSE [Data |-> <<>>, Mode |-> SynthDirMode]

IsDir(fsys, p) == Stat(fsys, p).Mode.dir

\* fs.ReadDir: the names directly below dir, sorted by name
RECURSIVE SortNames(_)
SortNames(S) ==
    IF S = {} THEN <<>>
    ELSE LET m == CHOOSE n \in S : \A o \in S : NameRank(n) <= NameRank(o)
         IN  <<m>> \o SortNames(S \ {m})

ReadDir(fsys, dir) == SortNames({q[Len(dir) + 1] : q \in Below(fsys, dir)})

\* the paths in the order WalkDir calls the callback: a directory, then its
\* children in ReadDir order, each followed by its own subtree
RECURSIVE WalkFrom(_, _), WalkChildren(_, _, _)
WalkFrom(fsys, p) ==
    IF IsDir(fsys, p) THEN <<p>> \o WalkChildren(fsys, p, ReadDir(fsys, p))
    ELSE <<p>>

WalkChildren(fsys, dir, names) ==
    IF names = <<>> THEN <<>>
    ELSE WalkFrom(fsys, dir \o <<Head(names)>>) \o WalkChildren(fsys, dir, Tail(names))

\* a walk that reaches a directory after what it holds
WalkDirChildrenFirst(fsys) ==
    LET w == WalkFrom(fsys, <<>>)
    IN  [i \in 1..Len(w) |-> w[Len(w) + 1 - i]]

WalkDir(fsys) == WalkFrom(fsys, <<>>)


----------------------------------------------------------------------------
(* archive/tar: the writer *)

\* An archive is a sequence of tokens: <<"hdr", h>> for a header block,
\* <<"data", b>> for one content byte, <<"end">> for the end marker that
\* Close writes.

\* a header that leaves Size unset
FileInfoHeaderSizeZero(info, name) ==
    [Name |-> name, Typeflag |-> IF info.Mode.dir THEN "dir" ELSE "reg",
     Mode |-> info.Mode.perm, Size |-> 0]

\* tar.FileInfoHeader(info, ""): Mode is the permission bits, Size is set for
\* regular files only; name is info.Name(), which the callback overrides
FileInfoHeader(info, name) ==
    [Name |-> name,
     Typeflag |-> IF info.Mode.dir THEN "dir" ELSE "reg",
     Mode |-> info.Mode.perm,
     Size |-> IF info.Mode.dir THEN 0 ELSE Len(info.Data)]

DataTokens(data) == [i \in 1..Len(data) |-> <<"data", data[i]>>]

NoFault == [at |-> 0, step |-> "none"]

WalkSteps == {"Info", "FileInfoHeader", "WriteHeader", "Open", "Copy"}

\* the WalkDir callback on the i-th walked path: what it appends to the
\* buffer and the error it returns
WalkFn(fsys, file, i, flt) ==
    LET hit(s) == flt.at = i /\ flt.step = s
        info   == Stat(fsys, file)
        base   == IF file = <<>> THEN <<".">> ELSE <<file[Len(file)]>>
        hdr0   == FileInfoHeader(info, base)
        hdr    == [hdr0 EXCEPT !.Name = file]
    IN  IF hit("Info") \/ hit("FileInfoHeader") \/ hit("WriteHeader")
        THEN [err |-> flt.step, out |-> <<>>]
        ELSE IF info.Mode.dir
        THEN [err |-> "nil", out |-> << <<"hdr", hdr>> >>]
        ELSE IF hit("Open")
        THEN [err |-> flt.step, out |-> << <<"hdr", hdr>> >>]
        ELSE IF hit("Copy")
        THEN [err |-> flt.step, out |-> << <<"hdr", hdr>> >>]
        ELSE [err |-> "nil", out |-> << <<"hdr", hdr>> >> \o DataTokens(info.Data)]

\* the walk stops at the first callback that returns an error
RECURSIVE WalkAll(_, _, _, _, _)
WalkAll(fsys, walk, i, buffer, flt) ==
    IF i > Len(walk) THEN [err |-> "nil", buffer |-> buffer]
    ELSE LET r == WalkFn(fsys, walk[i], i, flt)
         IN  IF r.err # "nil" THEN [err |-> r.err, buffer |-> buffer \o r.out]
             ELSE WalkAll(fsys, walk, i + 1, buffer \o r.out, flt)

\* tarImageContext handing back the buffer also when the walk failed
tarImageContextPartial(fsys, flt) ==
    LET w == WalkAll(fsys, WalkDir(fsys), 1, <<>>, flt)
    IN  IF w.err # "nil"
        THEN [err |-> w.err, isNil |-> FALSE, reader |-> w.buffer, written |-> w.buffer]
        ELSE [err |-> "nil", isNil |-> FALSE, reader |-> w.buffer \o << <<"end">> >>,
              written |-> w.buffer \o << <<"end">> >>]
\* tarImageContext: (buffer, nil) after Close, or (nil, err)
tarImageContext(fsys, flt) ==
    LET w == WalkAll(fsys, WalkDir(fsys), 1, <<>>, flt)
    IN  IF w.err # "nil"
        THEN [err |-> w.err, isNil |-> TRUE, reader |-> <<>>, written |-> w.buffer]
        ELSE [err |-> "nil", isNil |-> FALSE, reader |-> w.buffer \o << <<"end">> >>,
              written |-> w.buffer \o << <<"end">> >>]

----------------------------------------------------------------------------
(* archive/tar: the reader *)

\* tar.NewReader
NewReader(buf) == [buf |-> buf, pos |-> 1, rem |-> 0, err |-> "nil"]

\* tarReader.Next: skips what is left of the current entry, then reads a header
ReaderNext(tr) ==
    LET p == tr.pos + tr.rem
    IN  IF tr.err # "nil" THEN [tr |-> tr, hdr |-> <<>>]
        ELSE IF p > Len(tr.buf)
        THEN [tr |-> [tr EXCEPT !.pos = p, !.rem = 0, !.err = "UnexpectedEOF"], hdr |-> <<>>]
        ELSE IF tr.buf[p][1] = "end"
        THEN [tr |-> [tr EXCEPT !.pos = p, !.rem = 0, !.err = "EOF"], hdr |-> <<>>]
        ELSE IF tr.buf[p][1] # "hdr"
        THEN [tr |-> [tr EXCEPT !.pos = p, !.rem = 0, !.err = "ErrHeader"], hdr |-> <<>>]
        ELSE [tr |-> [tr EXCEPT !.pos = p + 1, !.rem = tr.buf[p][2].Size],
              hdr |-> tr.buf[p][2]]

\* io.Copy(dst, tarReader): the rest of the current entry; nothing once the
\* reader holds an error
RECURSIVE ReadData(_, _, _)
ReadData(buf, p, n) ==
    IF n = 0 \/ p > Len(buf) \/ buf[p][1] # "data" THEN <<>>
    ELSE <<buf[p][2]>> \o ReadData(buf, p + 1, n - 1)

\* io.Copy reading on through the headers to the end of the stream
ReaderCopyAll(tr) ==
    IF tr.err # "nil" THEN <<>>
    ELSE LET rest == SubSeq(tr.buf, tr.pos, Len(tr.buf))
             data == SelectSeq(rest, LAMBDA t : t[1] = "data")
         IN  [i \in 1..Len(data) |-> data[i][2]]
ReaderCopy(tr) ==
    IF tr.err # "nil" THEN <<>> ELSE ReadData(tr.buf, tr.pos, tr.rem)

\* structural replay: every entry of an archive as (path, mode, content)
RECURSIVE Replay(_)
Replay(tr) ==
    LET n == ReaderNext(tr)
    IN  IF n.tr.err # "nil" THEN <<>>
        ELSE << <<n.hdr.Name,
                  [dir |-> n.hdr.Typeflag = "dir", perm |-> n.hdr.Mode],
                  ReaderCopy(n.tr)>> >> \o Replay(n.tr)

ParseArchive(buf) == Replay(NewReader(buf))

FsTuples(fsys) == {<<p, fsys[p].Mode, fsys[p].Data>> : p \in DOMAIN fsys}

SeqRange(s) == {s[i] : i \in 1..Len(s)}


----------------------------------------------------------------------------
(* createFS and tarImageContext applied to drawn inputs *)

EmptyFS == [p \in {} |-> p]

NoArgs == [code |-> <<>>, task |-> <<>>, user |-> <<>>]

NotPacked == [err |-> "none", isNil |-> TRUE, reader |-> <<>>, written |-> <<>>]

FilePaths == {<<"a">>, <<"d", "b">>, <<"d", "e", "c">>}

Perms == {420, 493}

FileChoices == {[Data |-> c, Mode |-> RegMode(m)] : c \in Contents, m \in Perms}

\* an explicit (empty or not) directory entry d/e, as MapFS allows
DirChoices == {EmptyFS, (<<"d", "e">> :> [Data |-> <<>>, Mode |-> [dir |-> TRUE, perm |-> 493]])}

InputFS ==
    {f @@ g : f \in UNION {[D -> FileChoices] : D \in SUBSET FilePaths}, g \in DirChoices}

\* the longest walk of an input filesystem: ".", a, d, d/b, d/e, d/e/c
Faults == {NoFault} \cup {[at |-> k, step |-> s] : k \in 1..6, s \in WalkSteps}

ReqInit ==
    /\ pc = [r \in Req |-> "idle"]
    /\ args = [r \in Req |-> NoArgs]
    /\ containerOutput = [r \in Req |-> <<>>]
    /\ deferred = [r \in Req |-> <<>>]
    /\ waitOutcome = [r \in Req |-> "none"]
    /\ report = [r \in Req |-> [set |-> FALSE, isNil |-> TRUE, body |-> <<>>]]
    /\ logBuffer = [r \in Req |-> <<>>]
    /\ output = [r \in Req |-> [written |-> FALSE, body |-> <<>>]]
    /\ panicValue = [r \in Req |-> "nil"]
    /\ calls = [r \in Req |-> <<>>]
    /\ images = EmptyFS
    /\ containers = EmptyFS

FsInit ==
    /\ ReqInit
    /\ fsArgs = NoArgs
    /\ memFS \in InputFS
    /\ fault = NoFault
    /\ packed = NotPacked

\* createFS(task, code) for a task of the catalog
Assemble(task, code) ==
    /\ fsArgs = NoArgs
    /\ packed = NotPacked
    /\ createFS(task, code).panic = "nil"
    /\ fsArgs' = [code |-> code, task |-> task, user |-> <<>>]
    /\ memFS' = createFS(task, code).fs
    /\ fault' = NoFault
    /\ packed' = NotPacked
    /\ UNCHANGED reqVars

\* tarImageContext(memFS), with the walk failing at one step or not at all
Pack(flt) ==
    /\ packed = NotPacked
    /\ fault' = flt
    /\ packed' = tarImageContext(memFS, flt)
    /\ UNCHANGED <<fsArgs, memFS>>
    /\ UNCHANGED reqVars

FsNext ==
    \/ \E task \in Tasks, code \in Codes : Assemble(task, code)
    \/ \E flt \in Faults : Pack(flt)

FsSpec == FsInit /\ [][FsNext]_vars


----------------------------------------------------------------------------
(* executeCodeTest, one action per engine call *)

\* fmt.Sprintf("%s-%s-test", user, task)
imageName(user, task) == user \o <<"-">> \o task \o <<"-", "t", "e", "s", "t">>

Tag(r) == imageName(args[r].user, args[r].task)

\* tarImageContext(createFS(task, code)); a MapFS walk has no failing step
BuildContexts ==
    [in \in Inputs |-> tarImageContext(createFS(in.task, in.code).fs, NoFault)]

imageContext(r) == BuildContexts[args[r]]

EmptyID == <<>>

\* the engine names each container it creates with an ID of its own
NewID(r) == <<"ctr", r>>

Exists(id) == id \in DOMAIN containers

Call(r, op, arg) == calls' = [calls EXCEPT ![r] = Append(@, <<op, arg>>)]

\* leaving with the deferred calls run on return only
LeaveSkippingDeferOnPanic(dfr, panicking) ==
    IF panicking THEN "panicked"
    ELSE IF "ContainerRemove" \in SeqRange(dfr) THEN "ContainerRemove" ELSE "returned"

\* leaving executeCodeTest, by return or by panic: the deferred calls run
\* first, so the request goes on to the deferred ContainerRemove when it is
\* registered
Leave(dfr, panicking) ==
    IF "ContainerRemove" \in SeqRange(dfr) THEN "ContainerRemove"
    ELSE IF panicking THEN "panicked" ELSE "returned"

\* the files the engine finds in a build context, and what the harness of
\* that image reports when it runs: the image's test.ts applied to its code.ts
ContextFile(entries, name) ==
    LET e == {t \in SeqRange(entries) : t[1] = <<name>>}
    IN  IF e = {} THEN <<>> ELSE (CHOOSE t \in e : TRUE)[3]

ReportOf(ctx) ==
    LET entries == ParseArchive(ctx)
    IN  ContextFile(entries, "test.ts") \o ContextFile(entries, "code.ts")

EnvelopeHdr(name, data) ==
    <<"hdr", [Name |-> <<name>>, Typeflag |-> "reg", Mode |-> FileMode, Size |-> Len(data)]>>

\* the envelopes CopyFromContainer can hand back for /test/report.xml
Envelope(kind, ctx) ==
    LET rep == ReportOf(ctx)
    IN  CASE kind = "single" ->
                <<EnvelopeHdr("report.xml", rep)>> \o DataTokens(rep) \o << <<"end">> >>
          [] kind = "multi" ->
                <<EnvelopeHdr("report.xml", rep)>> \o DataTokens(rep)
                   \o <<EnvelopeHdr("extra", <<"z">>)>> \o DataTokens(<<"z">>)
                   \o << <<"end">> >>
          [] kind = "unreadable" -> << <<"data", "g">> >>

EnvelopeKinds == {"single", "multi", "unreadable"}

\* POST /test/{test}/run: decode the body and enter executeCodeTest, up to
\* the first engine call
HandleRun(r, user, task, code) ==
    LET memfs == createFS(task, code)
        ctx   == tarImageContext(memfs.fs, NoFault)
    IN  /\ pc[r] = "idle"
        /\ args' = [args EXCEPT ![r] = [code |-> code, task |-> task, user |-> user]]
        /\ IF memfs.panic # "nil"
           THEN /\ pc' = [pc EXCEPT ![r] = Leave(deferred[r], TRUE)]
                /\ panicValue' = [panicValue EXCEPT ![r] = memfs.panic]
           ELSE IF ctx.err # "nil"
           THEN /\ pc' = [pc EXCEPT ![r] = Leave(deferred[r], TRUE)]
                /\ panicValue' = [panicValue EXCEPT ![r] = "creating image rar"]
           ELSE /\ pc' = [pc EXCEPT ![r] = "ImageBuild"]
                /\ UNCHANGED panicValue
        /\ UNCHANGED <<containerOutput, deferred, waitOutcome, report, logBuffer,
                       output, calls, images, containers>>
        /\ UNCHANGED fsVars

\* ImageBuild with the error only printed, as the later calls do
ImageBuildSwallowErr(r, err) ==
    /\ pc[r] = "ImageBuild"
    /\ Call(r, "ImageBuild", Tag(r))
    /\ pc' = [pc EXCEPT ![r] = "ContainerCreate"]
    /\ images' = IF err THEN images ELSE (Tag(r) :> imageContext(r).reader) @@ images
    /\ UNCHANGED <<args, containerOutput, deferred, waitOutcome, report, logBuffer,
                   output, panicValue, containers>>
    /\ UNCHANGED fsVars

\* ImageBuild with an engine that keeps the image a tag already names
ImageBuildKeepExisting(r, err) ==
    /\ pc[r] = "ImageBuild"
    /\ Call(r, "ImageBuild", Tag(r))
    /\ IF err
       THEN /\ pc' = [pc EXCEPT ![r] = Leave(deferred[r], TRUE)]
            /\ panicValue' = [panicValue EXCEPT ![r] = "building image"]
       ELSE /\ pc' = [pc EXCEPT ![r] = "ContainerCreate"]
            /\ UNCHANGED panicValue
    /\ images' = IF err THEN images ELSE images @@ (Tag(r) :> imageContext(r).reader)
    /\ UNCHANGED <<args, containerOutput, deferred, waitOutcome, report, logBuffer,
                   output, containers>>
    /\ UNCHANGED fsVars

\* cli.ImageBuild: an error panics, else the tag now names this context
ImageBuild(r, err) ==
    /\ pc[r] = "ImageBuild"
    /\ Call(r, "ImageBuild", Tag(r))
    /\ IF err
       THEN /\ pc' = [pc EXCEPT ![r] = Leave(deferred[r], TRUE)]
            /\ panicValue' = [panicValue EXCEPT ![r] = "building image"]
       ELSE /\ pc' = [pc EXCEPT ![r] = "ContainerCreate"]
            /\ UNCHANGED panicValue
    /\ images' = IF err THEN images ELSE (Tag(r) :> imageContext(r).reader) @@ images
    /\ UNCHANGED <<args, containerOutput, deferred, waitOutcome, report, logBuffer,
                   output, containers>>
    /\ UNCHANGED fsVars

\* ContainerCreate returning from executeCodeTest on its error
ContainerCreateFailFast(r, err) ==
    /\ pc[r] = "ContainerCreate"
    /\ err \/ Tag(r) \in DOMAIN images
    /\ Call(r, "ContainerCreate", Tag(r))
    /\ IF err
       THEN /\ pc' = [pc EXCEPT ![r] = "returned"]
            /\ UNCHANGED <<containerOutput, containers, deferred>>
       ELSE /\ containerOutput' = [containerOutput EXCEPT ![r] = NewID(r)]
            /\ containers' = (NewID(r) :> images[Tag(r)]) @@ containers
            /\ pc' = [pc EXCEPT ![r] = "ContainerStart"]
            /\ deferred' = [deferred EXCEPT ![r] = Append(@, "ContainerRemove")]
    /\ UNCHANGED <<args, waitOutcome, report, logBuffer, output, panicValue, images>>
    /\ UNCHANGED fsVars

\* cli.ContainerCreate from the tag, the error only printed; then the
\* deferred ContainerRemove is registered
ContainerCreate(r, err) ==
    /\ pc[r] = "ContainerCreate"
    /\ err \/ Tag(r) \in DOMAIN images
    /\ Call(r, "ContainerCreate", Tag(r))
    /\ IF err
       THEN UNCHANGED <<containerOutput, containers>>
       ELSE /\ containerOutput' = [containerOutput EXCEPT ![r] = NewID(r)]
            /\ containers' = (NewID(r) :> images[Tag(r)]) @@ containers
    /\ deferred' = [deferred EXCEPT ![r] = Append(@, "ContainerRemove")]
    /\ pc' = [pc EXCEPT ![r] = "ContainerStart"]
    /\ UNCHANGED <<args, waitOutcome, report, logBuffer, output, panicValue, images>>
    /\ UNCHANGED fsVars

\* cli.ContainerStart, the error only printed
ContainerStart(r, err) ==
    /\ pc[r] = "ContainerStart"
    /\ err \/ Exists(containerOutput[r])
    /\ Call(r, "ContainerStart", containerOutput[r])
    /\ pc' = [pc EXCEPT ![r] = "ContainerWait"]
    /\ UNCHANGED <<args, containerOutput, deferred, waitOutcome, report, logBuffer,
                   output, panicValue, images, containers>>
    /\ UNCHANGED fsVars

\* cli.ContainerWait hands back the two channels
ContainerWait(r) ==
    /\ pc[r] = "ContainerWait"
    /\ Call(r, "ContainerWait", containerOutput[r])
    /\ pc' = [pc EXCEPT ![r] = "select"]
    /\ UNCHANGED <<args, containerOutput, deferred, waitOutcome, report, logBuffer,
                   output, panicValue, images, containers>>
    /\ UNCHANGED fsVars

\* select leaving executeCodeTest when the error channel delivers
SelectErrorAborts(r) ==
    /\ pc[r] = "select"
    /\ waitOutcome' = [waitOutcome EXCEPT ![r] = "error"]
    /\ panicValue' = [panicValue EXCEPT ![r] = "running container"]
    /\ pc' = [pc EXCEPT ![r] = Leave(deferred[r], TRUE)]
    /\ UNCHANGED <<args, containerOutput, deferred, report, logBuffer, output,
                   calls, images, containers>>
    /\ UNCHANGED fsVars
\* select: the error channel delivers first, the error is printed
SelectError(r) ==
    /\ pc[r] = "select"
    /\ waitOutcome' = [waitOutcome EXCEPT ![r] = "error"]
    /\ pc' = [pc EXCEPT ![r] = "CopyFromContainer"]
    /\ UNCHANGED <<args, containerOutput, deferred, report, logBuffer, output,
                   panicValue, calls, images, containers>>
    /\ UNCHANGED fsVars

\* select: the wait channel delivers first
SelectExit(r) ==
    /\ pc[r] = "select"
    /\ Exists(containerOutput[r])
    /\ waitOutcome' = [waitOutcome EXCEPT ![r] = "exit"]
    /\ pc' = [pc EXCEPT ![r] = "CopyFromContainer"]
    /\ UNCHANGED <<args, containerOutput, deferred, report, logBuffer, output,
                   panicValue, calls, images, containers>>
    /\ UNCHANGED fsVars

\* cli.CopyFromContainer, then the envelope is unwrapped into logBuffer.  On
\* an error the returned reader is nil and `defer report.Close()` panics
\* with a nil dereference; the error itself is only printed.
CopyFromContainer(r, kind) ==
    /\ pc[r] = "CopyFromContainer"
    /\ kind = "error" \/ Exists(containerOutput[r])
    /\ Call(r, "CopyFromContainer", containerOutput[r])
    /\ IF kind = "error"
       THEN /\ report' = [report EXCEPT ![r] = [set |-> TRUE, isNil |-> TRUE, body |-> <<>>]]
            /\ panicValue' = [panicValue EXCEPT ![r] = "nil pointer dereference"]
            /\ pc' = [pc EXCEPT ![r] = Leave(deferred[r], TRUE)]
            /\ UNCHANGED <<deferred, logBuffer>>
       ELSE LET envelope  == Envelope(kind, containers[containerOutput[r]])
                tarReader == ReaderNext(NewReader(envelope)).tr
            IN  /\ report' = [report EXCEPT ![r] =
                                 [set |-> TRUE, isNil |-> FALSE, body |-> envelope]]
                /\ deferred' = [deferred EXCEPT ![r] = Append(@, "report.Close")]
                /\ logBuffer' = [logBuffer EXCEPT ![r] = ReaderCopy(tarReader)]
                /\ pc' = [pc EXCEPT ![r] = Leave(deferred[r], FALSE)]
                /\ UNCHANGED panicValue
    /\ waitOutcome' = [waitOutcome EXCEPT ![r] = "none"]
    /\ UNCHANGED <<args, containerOutput, output, images, containers>>
    /\ UNCHANGED fsVars

\* the deferred ContainerRemove taking the image of the request with it
ContainerRemovePruningImage(r, err) ==
    /\ pc[r] = "ContainerRemove"
    /\ err \/ Exists(containerOutput[r])
    /\ Call(r, "ContainerRemove", containerOutput[r])
    /\ containers' =
          IF err THEN containers
          ELSE [id \in DOMAIN containers \ {containerOutput[r]} |-> containers[id]]
    /\ images' = IF err THEN images
                 ELSE [t \in DOMAIN images \ {Tag(r)} |-> images[t]]
    /\ IF panicValue[r] # "nil"
       THEN /\ pc' = [pc EXCEPT ![r] = "panicked"]
            /\ UNCHANGED output
       ELSE /\ pc' = [pc EXCEPT ![r] = "returned"]
            /\ output' = [output EXCEPT ![r] = [written |-> TRUE, body |-> logBuffer[r]]]
    /\ UNCHANGED <<args, containerOutput, deferred, waitOutcome, report, logBuffer,
                   panicValue>>
    /\ UNCHANGED fsVars
\* the deferred ContainerRemove panicking on its error
ContainerRemoveSurfacingErr(r, err) ==
    /\ pc[r] = "ContainerRemove"
    /\ err \/ Exists(containerOutput[r])
    /\ Call(r, "ContainerRemove", containerOutput[r])
    /\ containers' =
          IF err THEN containers
          ELSE [id \in DOMAIN containers \ {containerOutput[r]} |-> containers[id]]
    /\ IF err
       THEN /\ pc' = [pc EXCEPT ![r] = "panicked"]
            /\ panicValue' = [panicValue EXCEPT ![r] = "deleting container"]
            /\ UNCHANGED output
       ELSE IF panicValue[r] # "nil"
       THEN /\ pc' = [pc EXCEPT ![r] = "panicked"]
            /\ UNCHANGED <<output, panicValue>>
       ELSE /\ pc' = [pc EXCEPT ![r] = "returned"]
            /\ output' = [output EXCEPT ![r] = [written |-> TRUE, body |-> logBuffer[r]]]
            /\ UNCHANGED panicValue
    /\ UNCHANGED <<args, containerOutput, deferred, waitOutcome, report, logBuffer,
                   images>>
    /\ UNCHANGED fsVars
\* the deferred cli.ContainerRemove, its error only printed; then the panic
\* goes on to the server, or the handler writes the returned bytes
ContainerRemove(r, err) ==
    /\ pc[r] = "ContainerRemove"
    /\ err \/ Exists(containerOutput[r])
    /\ Call(r, "ContainerRemove", containerOutput[r])
    /\ containers' =
          IF err THEN containers
          ELSE [id \in DOMAIN containers \ {containerOutput[r]} |-> containers[id]]
    /\ IF panicValue[r] # "nil"
       THEN /\ pc' = [pc EXCEPT ![r] = "panicked"]
            /\ UNCHANGED output
       ELSE /\ pc' = [pc EXCEPT ![r] = "returned"]
            /\ output' = [output EXCEPT ![r] = [written |-> TRUE, body |-> logBuffer[r]]]
    /\ UNCHANGED <<args, containerOutput, deferred, waitOutcome, report, logBuffer,
                   panicValue, images>>
    /\ UNCHANGED fsVars

Init ==
    /\ ReqInit
    /\ fsArgs = NoArgs
    /\ memFS = EmptyFS
    /\ fault = NoFault
    /\ packed = NotPacked

EngineStep(r) ==
    \/ \E err \in BOOLEAN : ImageBuild(r, err)
    \/ \E err \in BOOLEAN : ContainerCreate(r, err)
    \/ \E err \in BOOLEAN : ContainerStart(r, err)
    \/ ContainerWait(r)
    \/ SelectError(r)
    \/ SelectExit(r)
    \/ \E kind \in EnvelopeKinds \cup {"error"} : CopyFromContainer(r, kind)
    \/ \E err \in BOOLEAN : ContainerRemove(r, err)

\* requests are served concurrently, one goroutine each
Next ==
    \E r \in Req :
        \/ \E in \in Inputs : HandleRun(r, in.user, in.task, in.code)
        \/ EngineStep(r)

Spec == Init /\ [][Next]_vars

Finished(r) == pc[r] \in {"returned", "panicked"}

\* a request is accepted only once every earlier one has finished
SeqHandleRun(r, user, task, code) ==
    /\ \A q \in Req \ {r} : pc[q] = "idle" \/ Finished(q)
    /\ HandleRun(r, user, task, code)

SeqNext ==
    \E r \in Req :
        \/ \E in \in Inputs : SeqHandleRun(r, in.user, in.task, in.code)
        \/ EngineStep(r)

SeqSpec == Init /\ [][SeqNext]_vars

\* executeCodeTest up to the tag: the request is decoded and imageName is
\* computed, before the harness of the task is looked up
EnterExecuteCodeTest(r, user, task, code) ==
    /\ pc[r] = "idle"
    /\ args' = [args EXCEPT ![r] = [code |-> code, task |-> task, user |-> user]]
    /\ pc' = [pc EXCEPT ![r] = "imageName"]
    /\ UNCHANGED <<containerOutput, deferred, waitOutcome, report, logBuffer,
                   output, panicValue, calls, images, containers>>
    /\ UNCHANGED fsVars

TagNext ==
    \E r \in Req, user \in Users, task \in Tasks, code \in Codes :
        EnterExecuteCodeTest(r, user, task, code)

TagSpec == Init /\ [][TagNext]_vars

\* a call to the engine returns
CallReturns(r) ==
    \/ \E err \in BOOLEAN : ImageBuild(r, err)
    \/ \E err \in BOOLEAN : ContainerCreate(r, err)
    \/ \E err \in BOOLEAN : ContainerStart(r, err)
    \/ ContainerWait(r)
    \/ CopyFromContainer(r, "error")
    \/ \E kind \in EnvelopeKinds : CopyFromContainer(r, kind)
    \/ \E err \in BOOLEAN : ContainerRemove(r, err)

\* an engine that is free never to send on either channel
DeliverNever(r) ==
    /\ FALSE
    /\ UNCHANGED vars

\* the engine sends on one of the two channels of ContainerWait
Deliver(r) ==
    \/ SelectError(r)
    \/ SelectExit(r)

\* termination does not depend on the code submitted: one code per
\* (user, task)
FairInputs == {in \in Inputs : in.code = <<"x">>}

FairNext ==
    \E r \in Req :
        \/ \E in \in FairInputs : HandleRun(r, in.user, in.task, in.code)
        \/ EngineStep(r)

\* every goroutine keeps running, every engine call returns and the engine
\* sends one of the two wait events; context.Background() has no deadline
FairSpec ==
    /\ Init
    /\ [][FairNext]_vars
    /\ \A r \in Req : WF_vars(CallReturns(r))
    /\ \A r \in Req : WF_vars(Deliver(r))

----------------------------------------------------------------------------
(* Properties *)

\* the engine calls of a request, by name
Ops(r) == [i \in 1..Len(calls[r]) |-> calls[r][i][1]]

Count(r, op) == Cardinality({i \in 1..Len(calls[r]) : calls[r][i][1] = op})

BuildSucceeded(r) == Len(calls[r]) >= 1 /\ panicValue[r] # "building image"

Lifecycle ==
    <<"ImageBuild", "ContainerCreate", "ContainerStart", "ContainerWait",
      "CopyFromContainer", "ContainerRemove">>

\* C1: a request whose build succeeded has called ContainerRemove exactly
\* once by the time it has left executeCodeTest, by return or by panic, and
\* never calls it more than once, whatever create, start, wait and copy-out
\* reported.
C1_RemoveExactlyOnce ==
    \A r \in Req :
        /\ Count(r, "ContainerRemove") <= 1
        /\ (Finished(r) /\ BuildSucceeded(r)) => Count(r, "ContainerRemove") = 1

\* a request that left by the panic after a failed create and a failed copy
C1_Witness ==
    \E r \in Req :
        /\ pc[r] = "panicked"
        /\ panicValue[r] = "nil pointer dereference"
        /\ containerOutput[r] = EmptyID
        /\ Count(r, "ContainerRemove") = 1

\* C2: a request for a task without a harness file panics with the
\* not-found error of the lookup and has made no engine call and written no
\* response.
C2_MissingHarnessNoEngineCall ==
    \A r \in Req :
        (pc[r] # "idle" /\ HarnessPath(args[r].task) \notin DOMAIN files)
            => /\ pc[r] = "panicked"
               /\ panicValue[r] = "NotExist"
               /\ calls[r] = <<>>
               /\ ~output[r].written

C2_Witness ==
    \E r \in Req :
        /\ pc[r] = "panicked"
        /\ panicValue[r] = "NotExist"
        /\ HarnessPath(args[r].task) \notin DOMAIN files

\* what the request returns when its container ran its own build context
OwnReport(r) == ReportOf(imageContext(r).reader)

C4_LifecycleOrder ==
    \A r \in Req :
        /\ Len(calls[r]) <= Len(Lifecycle)
        /\ Ops(r) = SubSeq(Lifecycle, 1, Len(calls[r]))
        /\ (Finished(r) /\ BuildSucceeded(r)) => Ops(r) = Lifecycle

\* a request that has left after its create failed, and with it its start
C4_Witness ==
    \E r \in Req :
        /\ Finished(r)
        /\ containerOutput[r] = EmptyID
        /\ Ops(r) = Lifecycle
        /\ calls[r][3] = <<"ContainerStart", EmptyID>>

\* C5: createFS(task, code) is exactly code.ts with the submitted code,
\* test.ts with the harness of the task and Dockerfile with the embedded
\* image/Dockerfile, each a regular file of mode 0644.
C5_CreateFSExact ==
    fsArgs # NoArgs =>
        /\ DOMAIN memFS = {<<"code.ts">>, <<"test.ts">>, <<"Dockerfile">>}
        /\ memFS[<<"code.ts">>].Data = fsArgs.code
        /\ memFS[<<"test.ts">>].Data = files[HarnessPath(fsArgs.task)]
        /\ memFS[<<"Dockerfile">>].Data = files[DockerfilePath]
        /\ \A p \in DOMAIN memFS : memFS[p].Mode = [dir |-> FALSE, perm |-> 420]

C5_Witness ==
    /\ fsArgs # NoArgs
    /\ fsArgs.code = <<"y", "x">>
    /\ memFS[<<"code.ts">>].Data # memFS[<<"test.ts">>].Data

\* the directories a filesystem implies without listing them: the walk root
\* and every parent of a listed path
ImpliedDirs(fsys) ==
    UNION {{SubSeq(p, 1, k) : k \in 0..(Len(p) - 1)} : p \in DOMAIN fsys} \cup {<<>>}

SynthDirTuples(fsys) ==
    {<<d, [dir |-> TRUE, perm |-> 365], <<>>>> : d \in ImpliedDirs(fsys) \ DOMAIN fsys}

Replayed == ParseArchive(packed.reader)

\* C6 as stated: the replayed entries are exactly the input's tuples
C6_RoundTripExact ==
    packed.err = "nil" => SeqRange(Replayed) = FsTuples(memFS)

\* C6, amended: the replayed entries are the input's tuples and, besides,
\* one directory entry of mode dir|0555 without content for the walk root
\* and for each parent directory the input does not list; no entry twice.
C6_RoundTripWithDirs ==
    packed.err = "nil" =>
        /\ SeqRange(Replayed) = FsTuples(memFS) \cup SynthDirTuples(memFS)
        /\ Len(Replayed) = Cardinality(SeqRange(Replayed))

C6_Witness ==
    /\ packed.err = "nil"
    /\ <<"d", "e", "c">> \in DOMAIN memFS
    /\ memFS[<<"d", "e", "c">>].Data # <<>>
    /\ <<"d", "e">> \notin DOMAIN memFS
    /\ <<"a">> \in DOMAIN memFS

HeaderAt(buf, i) == buf[i][1] = "hdr"

\* C7: in a finished archive every header other than the root's comes after
\* the header of its parent directory.
C7_ParentFirst ==
    packed.err = "nil" =>
        \A j \in 1..Len(packed.reader) :
            (HeaderAt(packed.reader, j) /\ packed.reader[j][2].Name # <<>>)
                => \E i \in 1..(j - 1) :
                      /\ HeaderAt(packed.reader, i)
                      /\ packed.reader[i][2].Name
                            = SubSeq(packed.reader[j][2].Name, 1,
                                     Len(packed.reader[j][2].Name) - 1)

C7_Witness ==
    /\ packed.err = "nil"
    /\ {<<"d", "b">>, <<"d", "e", "c">>, <<"a">>} \subseteq DOMAIN memFS

\* C8: a request that panicked on the build error made no call but the one
\* ImageBuild and wrote nothing, and a request makes a second call or writes
\* a response only after a build that left an image under its tag.
C8_BuildErrorAborts ==
    \A r \in Req :
        /\ panicValue[r] = "building image"
              => /\ pc[r] = "panicked"
                 /\ Ops(r) = <<"ImageBuild">>
                 /\ containerOutput[r] = EmptyID
                 /\ ~output[r].written
        /\ (Len(calls[r]) >= 2 \/ output[r].written) => Tag(r) \in DOMAIN images

\* a request aborted by the build error while its tag has no image at all
C8_Witness ==
    \E r \in Req :
        /\ panicValue[r] = "building image"
        /\ Tag(r) \notin DOMAIN images

\* C9 as stated: a request whose copy-out failed still returns and the
\* handler writes the bytes obtained.
C9_CopyErrorStillReturns ==
    \A r \in Req :
        (report[r].set /\ report[r].isNil /\ Finished(r))
            => pc[r] = "returned" /\ output[r].written

\* C10: a successful build puts its own context under the tag whatever the
\* tag held and wherever the other requests are, and a successful create
\* takes whatever the tag holds at that moment.
C10_TagOverwrittenMidUse ==
    [][\A r \in Req :
          /\ (pc[r] = "ImageBuild" /\ pc'[r] = "ContainerCreate")
                => images'[Tag(r)] = imageContext(r).reader
          /\ (pc[r] = "ContainerCreate" /\ containerOutput'[r] # EmptyID)
                => containers'[containerOutput'[r]] = images[Tag(r)]]_vars

\* A built, B built, A created: A returned the report of B's code
C10_Witness ==
    \E a, b \in Req :
        /\ a # b
        /\ args[a].user = args[b].user /\ args[a].task = args[b].task
        /\ args[a].code # args[b].code
        /\ output[a].written
        /\ output[a].body = OwnReport(b)
        /\ output[a].body # OwnReport(a)

\* the calls that take a container handle, and the handles a request has
\* passed to them
HandleOps == {"ContainerStart", "ContainerWait", "CopyFromContainer", "ContainerRemove"}

Handles(r) ==
    {calls[r][i][2] : i \in {j \in 1..Len(calls[r]) : calls[r][j][1] \in HandleOps}}

\* C11 as stated: the handles two distinct requests have started, waited on,
\* copied from or removed are never equal, also after a failed create.
C11_HandlesNeverShared ==
    \A a, b \in Req : a # b => Handles(a) \cap Handles(b) = {}

\* C12: a request receives a wait outcome only in its select and only one,
\* the error event or the exit event; either way it goes on to copy-out
\* without a panic and without another call, and the copy-out call is made
\* only with an outcome received, on the same handle whichever outcome it was.
C12_OneWaitOutcomeThenCopy ==
    [][\A r \in Req :
          /\ waitOutcome'[r] \notin {"none", waitOutcome[r]}
                => /\ pc[r] = "select" /\ waitOutcome[r] = "none"
                   /\ pc'[r] = "CopyFromContainer"
                   /\ panicValue'[r] = "nil"
                   /\ calls'[r] = calls[r]
          /\ Count(r, "CopyFromContainer")' > Count(r, "CopyFromContainer")
                => /\ waitOutcome[r] \in {"error", "exit"}
                   /\ calls'[r] = Append(calls[r], <<"CopyFromContainer", containerOutput[r]>>)
                   /\ Ops(r) = SubSeq(Lifecycle, 1, 4)]_vars

\* the error event won over a container that exists: the request is at
\* copy-out, not aborted
C12_Witness ==
    \E r \in Req :
        /\ waitOutcome[r] = "error"
        /\ Exists(containerOutput[r])
        /\ pc[r] = "CopyFromContainer"
        /\ panicValue[r] = "nil"

\* C13: with an engine that delivers one of the two wait events, a request
\* whose build succeeded eventually leaves executeCodeTest with its one
\* ContainerRemove made; and a request in the select leaves it only by
\* receiving an event: until then it stays there and makes no call, there
\* being no timeout.
C13_TerminatesIffDelivered ==
    /\ \A r \in Req :
          (pc[r] = "ContainerCreate")
              ~> (Finished(r) /\ Count(r, "ContainerRemove") = 1)
    /\ [][\A r \in Req :
             pc[r] = "select"
                => \/ pc'[r] = "select" /\ calls'[r] = calls[r]
                   \/ waitOutcome'[r] \in {"error", "exit"}]_vars

\* one request has left with its removal made while another is still
\* waiting in its select
C13_Witness ==
    \E a, b \in Req :
        /\ a # b
        /\ pc[a] = "select"
        /\ Count(a, "CopyFromContainer") = 0 /\ Count(a, "ContainerRemove") = 0
        /\ pc[b] = "returned"
        /\ Count(b, "ContainerRemove") = 1

\* the values a request panics with: the harness lookup, the build, the nil
\* report
PanicValues == {"nil", "NotExist", "creating image rar", "building image",
                "nil pointer dereference"}

\* C14: a request that got past copy-out without a panic returns, once its
\* one removal is made, with exactly the bytes copy-out left in logBuffer,
\* whether its container is gone or still there; no request ever panics on
\* a removal error and none calls ContainerRemove twice.
C14_RemoveErrorSwallowed ==
    \A r \in Req :
        /\ panicValue[r] \in PanicValues
        /\ Count(r, "ContainerRemove") <= 1
        /\ (Count(r, "ContainerRemove") = 1 /\ panicValue[r] = "nil")
              => /\ pc[r] = "returned"
                 /\ output[r] = [written |-> TRUE, body |-> logBuffer[r]]

\* a request returned its report although the removal of its container
\* failed: the container is still there
C14_Witness ==
    \E r \in Req :
        /\ pc[r] = "returned"
        /\ Count(r, "ContainerRemove") = 1
        /\ Exists(containerOutput[r])
        /\ output[r].body # <<>>

IsHdr(t) == t[1] = "hdr"

IsEnd(t) == t[1] = "end"

\* the entry names of the headers written to a buffer, in order
HeaderNames(buf) ==
    LET hs == SelectSeq(buf, IsHdr)
    IN  [i \in 1..Len(hs) |-> hs[i][2].Name]

\* the walk steps that fail before the header of the entry is written
BeforeHeader == {"Info", "FileInfoHeader", "WriteHeader"}

\* C15: tarImageContext returns without error exactly the buffer written,
\* holding a header for every walked entry in walk order and the end marker
\* once, as its last token; or it returns the error of the failing step and
\* no reader at all, the buffer then holding the entries walked before the
\* failing one (and its header, when the failure came after writing it),
\* nothing of a later entry and no end marker.
C15_FinalizedOrNothing ==
    packed # NotPacked =>
        LET walk == WalkDir(memFS)
        IN  IF packed.err = "nil"
            THEN /\ ~packed.isNil
                 /\ packed.reader = packed.written
                 /\ HeaderNames(packed.reader) = walk
                 /\ IsEnd(packed.reader[Len(packed.reader)])
                 /\ Len(SelectSeq(packed.reader, IsEnd)) = 1
            ELSE /\ packed.isNil
                 /\ packed.reader = <<>>
                 /\ packed.err = fault.step
                 /\ fault.at \in 1..Len(walk)
                 /\ HeaderNames(packed.written)
                       = SubSeq(walk, 1, IF fault.step \in BeforeHeader
                                         THEN fault.at - 1 ELSE fault.at)
                 /\ SelectSeq(packed.written, IsEnd) = <<>>

\* the content copy of the third walked entry failed with entries still to
\* walk: headers were written, and no reader is returned
C15_Witness ==
    /\ packed.err = "Copy"
    /\ fault.at = 3
    /\ Len(WalkDir(memFS)) > 3
    /\ Len(HeaderNames(packed.written)) = 3
    /\ packed.isNil

\* the content of the first entry of an envelope: the bytes between its
\* first header and whatever follows them; nothing when the envelope does
\* not start with a header
FirstEntryContent(env) ==
    IF env = <<>> \/ ~IsHdr(env[1]) THEN <<>>
    ELSE LET n == CHOOSE k \in 0..(Len(env) - 1) :
                     /\ \A i \in 2..(k + 1) : env[i][1] = "data"
                     /\ k + 2 > Len(env) \/ env[k + 2][1] # "data"
         IN  [i \in 1..n |-> env[i + 1][2]]

\* C16: once CopyFromContainer has returned an envelope, logBuffer, and the
\* response when written, is exactly the content of the envelope's first
\* entry; nothing of a further entry is in it.
C16_FirstEntryOnly ==
    \A r \in Req :
        (report[r].set /\ ~report[r].isNil)
            => /\ logBuffer[r] = FirstEntryContent(report[r].body)
               /\ output[r].written => output[r].body = FirstEntryContent(report[r].body)

\* a request returned its report from an envelope that holds a second entry
C16_Witness ==
    \E r \in Req :
        /\ output[r].written
        /\ output[r].body # <<>>
        /\ <<"extra">> \in SeqRange(HeaderNames(report[r].body))
        /\ "z" \notin SeqRange(output[r].body)

\* C17: no step takes a tag away from the engine; a container that
\* disappears in a step is the one held by the request making its
\* ContainerRemove in that step; and the tag of a request that has left
\* after a successful build is there.
C17_ImagesNeverRemoved ==
    [][/\ DOMAIN images \subseteq DOMAIN images'
       /\ \A id \in DOMAIN containers \ DOMAIN containers' :
             \E r \in Req :
                 /\ id = containerOutput[r]
                 /\ pc[r] = "ContainerRemove" /\ pc'[r] # "ContainerRemove"
       /\ \A r \in Req :
             (pc'[r] \in {"returned", "panicked"} /\ Len(calls'[r]) >= 2)
                 => Tag(r) \in DOMAIN images']_vars

\* two requests have left and their containers are gone, and the engine
\* still knows both of their tags
C17_Witness ==
    \E a, b \in Req :
        /\ Tag(a) # Tag(b)
        /\ Finished(a) /\ Finished(b)
        /\ containerOutput[a] # EmptyID /\ ~Exists(containerOutput[a])
        /\ containerOutput[b] # EmptyID /\ ~Exists(containerOutput[b])
        /\ {Tag(a), Tag(b)} \subseteq DOMAIN images

\* C18 as stated: two requests have the same tag only if they have the same
\* user and the same task, also for identifiers that contain '-'.
C18_TagInjective ==
    \A a, b \in Req :
        (pc[a] = "imageName" /\ pc[b] = "imageName" /\ Tag(a) = Tag(b))
            => args[a].user = args[b].user /\ args[a].task = args[b].task

\* C19 as stated: every handle a request passes to start, wait, copy-out or
\* remove is the one its own successful create returned; none is empty.
C19_HandleFromOwnCreate ==
    \A r \in Req :
        \A h \in Handles(r) : h # EmptyID /\ h = NewID(r) /\ h = containerOutput[r]

=============================================================================
